---- MODULE Spec2Model ----
(***************************************************************************)
(* Model of the xvt register tables:                                       *)
(*   ValueTable (src/xvt/src/lib.rs)       - one region per width, every   *)
(*                                           width owns addresses 0..65535 *)
(*   Registers  (src/xvt/src/registers.rs) - one address space split into  *)
(*                                           five ranges, one per width    *)
(* The arena is modelled byte by byte (little-endian, 64-bit target); a    *)
(* byte that is absent from the map `mem` holds zero.  Values are TLA+     *)
(* integers, stored as two's-complement little-endian bytes.  TLC integers *)
(* are 32 bits wide, so the values written through the 32- and 64-bit      *)
(* accessors are taken from 0 .. 2^31-1; negative values are exercised     *)
(* through the 8- and 16-bit accessors.                                    *)
(***************************************************************************)
EXTENDS Integers, Sequences, FiniteSets, TLC

VARIABLES
    table,      \* which type the instance is: "ValueTable" or "Registers"
    mem,        \* the arena: byte offset -> non-zero byte
    before,     \* the arena as it was when the last call started
    last,       \* the last call: operation, arguments and returned value
    overflow_checks, \* "unknown", or "off" once an addition has wrapped
    panicked,   \* the process was terminated by an arithmetic-overflow panic
    written,    \* <<width, address>> pairs passed to single-address writes
    bulkUsed,   \* a bulk write has been called
    steps,      \* number of calls made on the table
    cmem,       \* concurrent scenario: the ValueTable arena shared by threads
    seqmem,     \* concurrent scenario: arena if every call had run atomically
    pc,         \* concurrent scenario: thread -> "idle" | "loaded"
    cur,        \* concurrent scenario: thread -> call in progress
    reg,        \* concurrent scenario: thread -> word held in a register
    calls       \* concurrent scenario: thread -> calls started

vars == <<table, mem, before, last, overflow_checks, panicked, written,
          bulkUsed, steps, cmem, seqmem, pc, cur, reg, calls>>

seqVars == <<table, mem, before, last, overflow_checks, panicked, written,
             bulkUsed, steps>>
concVars == <<cmem, seqmem, pc, cur, reg, calls>>

----------------------------------------------------------------------------
(* Bounds of the exploration *)

MaxOps == 2         \* calls per run of the sequential scenarios
MaxLen == 2         \* longest value sequence / largest count of a bulk call
MaxCalls == 2       \* calls per thread in the concurrent scenario

----------------------------------------------------------------------------
(* Machine arithmetic *)

U16 == 65536
WrapU16(x) == x % U16

Min(a, b) == IF a < b THEN a ELSE b

RECURSIVE Pow2(_)
Pow2(n) == IF n = 0 THEN 1 ELSE 2 * Pow2(n - 1)

BitOf(b, i) == (b \div Pow2(i)) % 2

OrByte(x, y) ==
    LET bit(i) == IF BitOf(x, i) = 1 \/ BitOf(y, i) = 1 THEN Pow2(i) ELSE 0
    IN  bit(0) + bit(1) + bit(2) + bit(3) + bit(4) + bit(5) + bit(6) + bit(7)

AndByte(x, y) ==
    LET bit(i) == IF BitOf(x, i) = 1 /\ BitOf(y, i) = 1 THEN Pow2(i) ELSE 0
    IN  bit(0) + bit(1) + bit(2) + bit(3) + bit(4) + bit(5) + bit(6) + bit(7)

NotByte(x) == 255 - x

\* size_of::<usize>() on the 64-bit target; also the N of the bit accessors.
N == 8

\* The usize value 1 << k, as its N little-endian bytes (k < 8 in every use).
ShlOne(k) == [i \in 1..N |-> IF i = 1 THEN Pow2(k) ELSE 0]

OrWord(w, m) == [i \in 1..N |-> OrByte(w[i], m[i])]
AndWord(w, m) == [i \in 1..N |-> AndByte(w[i], m[i])]
NotWord(m) == [i \in 1..N |-> NotByte(m[i])]
WordNonZero(w) == \E i \in 1..N : w[i] # 0

----------------------------------------------------------------------------
(* The arena *)

\* Mutation of alloc_zeroed: the block comes from alloc and keeps stale bytes.
alloc_uninit == [b \in {0, 1024, 8192} |-> 255]

\* alloc_zeroed: every byte of the block is zero.
alloc_zeroed == [b \in {} |-> 0]

Rd(m, b) == IF b \in DOMAIN m THEN m[b] ELSE 0

LoadBytes(m, off, n) == [i \in 1..n |-> Rd(m, off + i - 1)]

StoreBytes(m, off, bs) ==
    LET rng == {off + i - 1 : i \in 1..Len(bs)}
        nz  == {b \in rng : bs[b - off + 1] # 0}
    IN  [b \in (DOMAIN m \ rng) \cup nz |->
            IF b \in rng THEN bs[b - off + 1] ELSE m[b]]

----------------------------------------------------------------------------
(* Numeric kinds and their representation *)

Kinds == {"i8", "u8", "i16", "u16", "i32", "u32", "i64", "u64"}

Bits(k) == CASE k \in {"i8", "u8"}   -> 8
             [] k \in {"i16", "u16"} -> 16
             [] k \in {"i32", "u32"} -> 32
             [] k \in {"i64", "u64"} -> 64

SizeOf(k) == Bits(k) \div 8

Signed(k) == k \in {"i8", "i16", "i32", "i64"}

\* The bytes of a value in memory: two's complement, least significant first.
RECURSIVE ToBytes(_, _)
ToBytes(v, n) == IF n = 0 THEN <<>>
                 ELSE <<v % 256>> \o ToBytes(v \div 256, n - 1)

\* The value of kind k held in the bytes bs.
RECURSIVE FromBytesAt(_, _, _)
FromBytesAt(k, bs, i) ==
    IF i = Len(bs)
    THEN IF Signed(k) /\ bs[i] >= 128 THEN bs[i] - 256 ELSE bs[i]
    ELSE bs[i] + 256 * FromBytesAt(k, bs, i + 1)

FromBytes(k, bs) == FromBytesAt(k, bs, 1)

\* The bytes of a run of values, element after element.
RECURSIVE Flatten(_, _)
Flatten(vals, n) == IF vals = <<>> THEN <<>>
                    ELSE ToBytes(Head(vals), n) \o Flatten(Tail(vals), n)

----------------------------------------------------------------------------
(* ValueTable (lib.rs) *)

VT_BITS_8_REG_OFS == 8192
VT_BITS_16_REG_OFS == VT_BITS_8_REG_OFS + 65536
VT_BITS_32_REG_OFS == VT_BITS_16_REG_OFS + 131072
VT_BITS_64_REG_OFS == VT_BITS_32_REG_OFS + 262144

VT_REG_OFS(k) == CASE Bits(k) = 8  -> VT_BITS_8_REG_OFS
                   [] Bits(k) = 16 -> VT_BITS_16_REG_OFS
                   [] Bits(k) = 32 -> VT_BITS_32_REG_OFS
                   [] Bits(k) = 64 -> VT_BITS_64_REG_OFS

\* mem.offset(ofs).cast::<T>().offset(addr), as a byte offset into the arena
vt_val_ptr(k, addr) == VT_REG_OFS(k) + addr * SizeOf(k)

\* Mutation of vt_clamp: the address space is taken to end one slot early.
vt_clamp_off_by_one(addr, n) == Min(65535 - addr, n)

\* m.min(n) with m = 65536 - addr
vt_clamp(addr, n) == Min(65536 - addr, n)

vt_get(m, k, addr) == FromBytes(k, LoadBytes(m, vt_val_ptr(k, addr), SizeOf(k)))

vt_gets(m, k, addr, num) ==
    [i \in 1..vt_clamp(addr, num) |->
        FromBytes(k, LoadBytes(m, vt_val_ptr(k, addr) + (i - 1) * SizeOf(k), SizeOf(k)))]

\* Mutation of vt_set: the pointer is not cast to T and one byte is stored.
vt_set_u8_ptr(m, k, addr, val) == StoreBytes(m, vt_val_ptr(k, addr), ToBytes(val, 1))

vt_set(m, k, addr, val) == StoreBytes(m, vt_val_ptr(k, addr), ToBytes(val, SizeOf(k)))

vt_sets(m, k, addr, vals) ==
    StoreBytes(m, vt_val_ptr(k, addr),
               Flatten(SubSeq(vals, 1, vt_clamp(addr, Len(vals))), SizeOf(k)))

\* mem.cast::<usize>().offset(addr / N), as a byte offset into the arena
vt_word_ptr(addr) == (addr \div N) * N

vt_get_bit(m, addr) ==
    LET val == LoadBytes(m, vt_word_ptr(addr), N)
    IN  WordNonZero(AndWord(val, ShlOne(addr % N)))

vt_clear_bit(m, addr) ==
    LET val == LoadBytes(m, vt_word_ptr(addr), N)
    IN  StoreBytes(m, vt_word_ptr(addr), AndWord(val, NotWord(ShlOne(addr % N))))

\* Mutation of vt_set_bit: the word is assigned instead of or-ed.
vt_set_bit_assign(m, addr) == StoreBytes(m, vt_word_ptr(addr), ShlOne(addr % N))

vt_set_bit(m, addr) ==
    LET val == LoadBytes(m, vt_word_ptr(addr), N)
    IN  StoreBytes(m, vt_word_ptr(addr), OrWord(val, ShlOne(addr % N)))

----------------------------------------------------------------------------
(* Registers (registers.rs) *)

BIT_REG_MIN == 0
BIT_REG_MAX == 8191
BIT_REG_NUM == 8192

BITS_8_REG_MIN == 8192
BITS_8_REG_MAX == 32767
BITS_8_REG_NUM == 24576

BITS_16_REG_MIN == 32768
BITS_16_REG_MAX == 49151
BITS_16_REG_NUM == 16384

BITS_32_REG_MIN == 49152
BITS_32_REG_MAX == 57343
BITS_32_REG_NUM == 8192

BITS_64_REG_MIN == 57344
BITS_64_REG_MAX == 65535
BITS_64_REG_NUM == 8192

BITS_8_REG_OFS == BIT_REG_NUM \div 8
BITS_16_REG_OFS == BITS_8_REG_OFS + BITS_8_REG_NUM
BITS_32_REG_OFS == BITS_16_REG_OFS + BITS_16_REG_NUM
BITS_64_REG_OFS == BITS_32_REG_OFS + BITS_32_REG_NUM

REG_MIN(k) == CASE Bits(k) = 8  -> BITS_8_REG_MIN
                [] Bits(k) = 16 -> BITS_16_REG_MIN
                [] Bits(k) = 32 -> BITS_32_REG_MIN
                [] Bits(k) = 64 -> BITS_64_REG_MIN

REG_MAX(k) == CASE Bits(k) = 8  -> BITS_8_REG_MAX
                [] Bits(k) = 16 -> BITS_16_REG_MAX
                [] Bits(k) = 32 -> BITS_32_REG_MAX
                [] Bits(k) = 64 -> BITS_64_REG_MAX

REG_OFS(k) == CASE Bits(k) = 8  -> BITS_8_REG_OFS
                [] Bits(k) = 16 -> BITS_16_REG_OFS
                [] Bits(k) = 32 -> BITS_32_REG_OFS
                [] Bits(k) = 64 -> BITS_64_REG_OFS

\* Mutation of regs_in_range: the lower bound is not tested.
regs_in_range_max_only(k, r) == r <= REG_MAX(k)

\* reg >= MIN && reg <= MAX, the range test of the scalar accessors
regs_in_range(k, r) == r >= REG_MIN(k) /\ r <= REG_MAX(k)

\* mem.cast::<T>().offset(reg - MIN + OFS), as a byte offset into the arena;
\* the element offset is computed in u16.
regs_val_ptr(k, r) == WrapU16(WrapU16(r - REG_MIN(k)) + REG_OFS(k)) * SizeOf(k)

regs_get(m, k, r) ==
    IF ~regs_in_range(k, r) THEN 0
    ELSE FromBytes(k, LoadBytes(m, regs_val_ptr(k, r), SizeOf(k)))

regs_set(m, k, r, val) ==
    IF regs_in_range(k, r)
    THEN StoreBytes(m, regs_val_ptr(k, r), ToBytes(val, SizeOf(k)))
    ELSE m

\* reg + num is a u16 addition: it overflows when the sum exceeds 65535.  It is
\* evaluated only after the two range tests on reg have passed.
regs_sum_overflows(k, r, num) == regs_in_range(k, r) /\ r + num >= U16

\* the run test of the bulk accessors, with the sum wrapped to 16 bits
regs_run_ok(k, r, num) == regs_in_range(k, r) /\ WrapU16(r + num) <= REG_MAX(k)

regs_get_values(m, k, r, num) ==
    IF ~regs_run_ok(k, r, num) THEN <<>>
    ELSE [i \in 1..num |->
            FromBytes(k, LoadBytes(m, regs_val_ptr(k, r) + (i - 1) * SizeOf(k), SizeOf(k)))]

\* values.len() as u16 truncates the length to 16 bits
regs_set_values(m, k, r, values) ==
    IF regs_run_ok(k, r, WrapU16(Len(values)))
    THEN StoreBytes(m, regs_val_ptr(k, r), Flatten(values, SizeOf(k)))
    ELSE m

regs_word_ptr(r) == (r \div N) * N

regs_get_bit(m, r) ==
    IF r > BIT_REG_MAX THEN FALSE
    ELSE LET val == LoadBytes(m, regs_word_ptr(r), N)
         IN  WordNonZero(AndWord(val, ShlOne(r % N)))

\* Mutation of regs_clear_bit: the mask is not complemented.
regs_clear_bit_no_not(m, r) ==
    IF r <= BIT_REG_MAX
    THEN LET val == LoadBytes(m, regs_word_ptr(r), N)
         IN  StoreBytes(m, regs_word_ptr(r), AndWord(val, ShlOne(r % N)))
    ELSE m

regs_clear_bit(m, r) ==
    IF r <= BIT_REG_MAX
    THEN LET val == LoadBytes(m, regs_word_ptr(r), N)
         IN  StoreBytes(m, regs_word_ptr(r), AndWord(val, NotWord(ShlOne(r % N))))
    ELSE m

regs_set_bit(m, r) ==
    IF r <= BIT_REG_MAX
    THEN LET val == LoadBytes(m, regs_word_ptr(r), N)
         IN  StoreBytes(m, regs_word_ptr(r), OrWord(val, ShlOne(r % N)))
    ELSE m

----------------------------------------------------------------------------
(* Arguments the calls are made with *)

\* ValueTable: bit addresses 0 and 1 share a word; the word of bit 8192 starts
\* at arena byte 8192; 65535 is the last address.
VT_BitAddrs == {0, 1, 8192, 65535}
VT_Addrs == {0, 65535}
VT_BulkAddrs == {65534, 65535}

\* Registers: bit 1024 lies in the word at arena byte 1024; 4096 (0x1000) is a
\* bit address and is outside every numeric range; 8192 is past BIT_REG_MAX.
REGS_BitAddrs == {1024, 4096, BIT_REG_MAX, BIT_REG_MAX + 1}
REGS_Addrs(k) == {REG_MIN(k), REG_MAX(k), 4096}
REGS_BulkAddrs(k) == {REG_MAX(k) - MaxLen, REG_MAX(k), 4096}

\* Two values per kind: one with a distinct bit pattern in every byte it can
\* have, and the extreme of the kind that sets most bits.
Value(k) == CASE k = "i8"  -> -86
              [] k = "u8"  -> 170
              [] k = "i16" -> -21931
              [] k = "u16" -> 43605
              [] k \in {"i32", "u32", "i64", "u64"} -> 16909060

Extreme(k) == CASE k = "i8"  -> -128
                [] k = "u8"  -> 255
                [] k = "i16" -> -32768
                [] k = "u16" -> 65535
                [] k \in {"i32", "u32", "i64", "u64"} -> 2147483647

ScalarValues(k) == {Value(k), Extreme(k)}

\* A run of n distinct non-zero values of kind k.
Values(k, n) == [i \in 1..n |-> IF k \in {"i8", "i16"} THEN 0 - i ELSE i]

Lens == {0, 1, MaxLen}

----------------------------------------------------------------------------
(* Calls on one table, one after another *)

NoCall == [op |-> "new", k |-> "none", addr |-> 0, val |-> 0, vals |-> <<>>,
           num |-> 0, retb |-> FALSE, retv |-> 0, rets |-> <<>>]

Call(op, k, addr) == [NoCall EXCEPT !.op = op, !.k = k, !.addr = addr]

vt_new == alloc_zeroed
regs_new == alloc_zeroed

Init ==
    /\ table \in {"ValueTable", "Registers"}
    /\ mem = (IF table = "ValueTable" THEN vt_new ELSE regs_new)
    /\ before = mem
    /\ last = NoCall
    /\ overflow_checks = "unknown"
    /\ panicked = FALSE
    /\ written = {}
    /\ bulkUsed = FALSE
    /\ steps = 0
    /\ cmem = alloc_zeroed
    /\ seqmem = alloc_zeroed
    /\ pc = <<>>
    /\ cur = <<>>
    /\ reg = <<>>
    /\ calls = <<>>

CanCall(t) == table = t /\ ~panicked /\ steps < MaxOps

\* A call that returns: c is the call with its result, m the arena it leaves.
Return(c, m) ==
    /\ last' = c
    /\ before' = mem
    /\ mem' = m
    /\ steps' = steps + 1
    /\ UNCHANGED <<table, panicked>>
    /\ UNCHANGED concVars

\* A call that reads: the arena is left alone.
Read(c) ==
    /\ Return(c, mem)
    /\ UNCHANGED <<overflow_checks, written, bulkUsed>>

\* A call that writes one address of width w.
Write(c, w, m) ==
    /\ Return(c, m)
    /\ written' = written \cup {<<w, c.addr>>}
    /\ UNCHANGED <<overflow_checks, bulkUsed>>

\* A bulk write.
BulkWrite(c, m) ==
    /\ Return(c, m)
    /\ bulkUsed' = TRUE
    /\ UNCHANGED written

\* A call that dies of "attempt to add with overflow".
Panic(c) ==
    /\ last' = c
    /\ before' = mem
    /\ panicked' = TRUE
    /\ steps' = steps + 1
    /\ UNCHANGED <<table, mem, overflow_checks, written, bulkUsed>>
    /\ UNCHANGED concVars

\* The u16 addition reg + num of a bulk call.  Whether an overflowing addition
\* panics (overflow-checks on, the debug profile) or wraps (off, the release
\* profile) is a property of the build: it is settled by the first addition
\* that overflows, and a build that wrapped once wraps ever after.
AddPanics(overflows) == overflows /\ overflow_checks = "unknown"
AddWraps(overflows) ==
    overflow_checks' = (IF overflows THEN "off" ELSE overflow_checks)

ValueTable_get_bit(addr) ==
    /\ CanCall("ValueTable")
    /\ Read([Call("get_bit", "bit", addr) EXCEPT !.retb = vt_get_bit(mem, addr)])

ValueTable_clear_bit(addr) ==
    /\ CanCall("ValueTable")
    /\ Write(Call("clear_bit", "bit", addr), 1, vt_clear_bit(mem, addr))

ValueTable_set_bit(addr) ==
    /\ CanCall("ValueTable")
    /\ Write(Call("set_bit", "bit", addr), 1, vt_set_bit(mem, addr))

ValueTable_get(k, addr) ==
    /\ CanCall("ValueTable")
    /\ Read([Call("get", k, addr) EXCEPT !.retv = vt_get(mem, k, addr)])

ValueTable_gets(k, addr, num) ==
    /\ CanCall("ValueTable")
    /\ Read([Call("gets", k, addr) EXCEPT !.num = num,
                                          !.rets = vt_gets(mem, k, addr, num)])

ValueTable_set(k, addr, val) ==
    /\ CanCall("ValueTable")
    /\ Write([Call("set", k, addr) EXCEPT !.val = val], Bits(k),
             vt_set(mem, k, addr, val))

ValueTable_sets(k, addr, vals) ==
    /\ CanCall("ValueTable")
    /\ BulkWrite([Call("sets", k, addr) EXCEPT !.vals = vals],
                 vt_sets(mem, k, addr, vals))
    /\ UNCHANGED overflow_checks

Registers_get_bit(r) ==
    /\ CanCall("Registers")
    /\ Read([Call("get_bit", "bit", r) EXCEPT !.retb = regs_get_bit(mem, r)])

Registers_clear_bit(r) ==
    /\ CanCall("Registers")
    /\ Write(Call("clear_bit", "bit", r), 1, regs_clear_bit(mem, r))

Registers_set_bit(r) ==
    /\ CanCall("Registers")
    /\ Write(Call("set_bit", "bit", r), 1, regs_set_bit(mem, r))

Registers_get(k, r) ==
    /\ CanCall("Registers")
    /\ Read([Call("get", k, r) EXCEPT !.retv = regs_get(mem, k, r)])

Registers_set(k, r, val) ==
    /\ CanCall("Registers")
    /\ Write([Call("set", k, r) EXCEPT !.val = val], Bits(k),
             regs_set(mem, k, r, val))

Registers_get_values(k, r, num) ==
    /\ CanCall("Registers")
    /\ LET c == [Call("get_values", k, r) EXCEPT !.num = num]
           o == regs_sum_overflows(k, r, num)
       IN  \/ AddPanics(o) /\ Panic(c)
           \/ /\ AddWraps(o)
              /\ Return([c EXCEPT !.rets = regs_get_values(mem, k, r, num)], mem)
              /\ UNCHANGED <<written, bulkUsed>>

Registers_set_values(k, r, values) ==
    /\ CanCall("Registers")
    /\ LET c == [Call("set_values", k, r) EXCEPT !.vals = values]
           o == regs_sum_overflows(k, r, WrapU16(Len(values)))
       IN  \/ AddPanics(o) /\ Panic(c)
           \/ /\ AddWraps(o)
              /\ BulkWrite(c, regs_set_values(mem, k, r, values))

Next ==
    \/ \E a \in VT_BitAddrs : ValueTable_get_bit(a)
    \/ \E a \in VT_BitAddrs : ValueTable_clear_bit(a)
    \/ \E a \in VT_BitAddrs : ValueTable_set_bit(a)
    \/ \E k \in Kinds, a \in VT_Addrs : ValueTable_get(k, a)
    \/ \E k \in Kinds, a \in VT_BulkAddrs, n \in Lens : ValueTable_gets(k, a, n)
    \/ \E k \in Kinds, a \in VT_Addrs : \E v \in ScalarValues(k) :
            ValueTable_set(k, a, v)
    \/ \E k \in Kinds, a \in VT_BulkAddrs, n \in Lens :
            ValueTable_sets(k, a, Values(k, n))
    \/ \E r \in REGS_BitAddrs : Registers_get_bit(r)
    \/ \E r \in REGS_BitAddrs : Registers_clear_bit(r)
    \/ \E r \in REGS_BitAddrs : Registers_set_bit(r)
    \/ \E k \in Kinds : \E r \in REGS_Addrs(k) : Registers_get(k, r)
    \/ \E k \in Kinds : \E r \in REGS_Addrs(k), v \in ScalarValues(k) :
            Registers_set(k, r, v)
    \/ \E k \in Kinds : \E r \in REGS_BulkAddrs(k), n \in Lens :
            Registers_get_values(k, r, n)
    \/ \E k \in Kinds : \E r \in REGS_BulkAddrs(k), n \in Lens :
            Registers_set_values(k, r, Values(k, n))

Spec == Init /\ [][Next]_vars

----------------------------------------------------------------------------
(* What the last call was, and where its effect can be seen *)

Addr16 == 0..(U16 - 1)

IsVT == table = "ValueTable"
IsRegs == table = "Registers"

GetBit(m, a) == IF IsVT THEN vt_get_bit(m, a) ELSE regs_get_bit(m, a)
Get(m, k, a) == IF IsVT THEN vt_get(m, k, a) ELSE regs_get(m, k, a)

\* The width the last call went through: 1 for the bit accessors.
LastWidth == IF last.k = "bit" THEN 1 ELSE Bits(last.k)

BitWrite == last.op \in {"set_bit", "clear_bit"}
ScalarWrite == last.op = "set"
BulkSet == last.op \in {"sets", "set_values"}
BulkGet == last.op \in {"gets", "get_values"}

\* The address is in the domain of the width (the whole 16-bit space in a
\* ValueTable, the width's range in a Registers).
BitDomain(a) == IF IsVT THEN a \in Addr16 ELSE a >= BIT_REG_MIN /\ a <= BIT_REG_MAX
KindDomain(k, a) == IF IsVT THEN a \in Addr16 ELSE a >= REG_MIN(k) /\ a <= REG_MAX(k)

\* Bytes of the arena whose content the last call changed.
Changed == {b \in DOMAIN mem \cup DOMAIN before : Rd(mem, b) # Rd(before, b)}

\* The arena bytes an accessor reads for an address.
BitBytes(a) == LET p == IF IsVT THEN vt_word_ptr(a) ELSE regs_word_ptr(a)
               IN  p..(p + N - 1)
KindBytes(k, a) == LET p == IF IsVT THEN vt_val_ptr(k, a) ELSE regs_val_ptr(k, a)
                   IN  p..(p + SizeOf(k) - 1)

\* Addresses whose value a call can be observed at: the addresses the calls
\* are made with, their neighbours, and every address that reads a changed
\* byte.  At any other address the accessor reads only unchanged bytes.
BitProbes ==
    LET fixed == IF IsVT THEN VT_BitAddrs \cup {7, 8, 8193, 65534}
                 ELSE REGS_BitAddrs \cup {0, 1025, 4097}
        cand  == UNION {{(b \div N) * N + j : j \in 0..(N - 1)} : b \in Changed}
    IN  fixed \cup {a \in cand : /\ a \in Addr16
                                  /\ BitDomain(a)
                                  /\ BitBytes(a) \cap Changed # {}}

KindProbes(k) ==
    LET fixed == IF IsVT THEN VT_Addrs \cup VT_BulkAddrs \cup {1, 65533}
                 ELSE REGS_Addrs(k) \cup REGS_BulkAddrs(k)
                      \cup {REG_MIN(k) + 1, REG_MAX(k) - 1}
        base  == IF IsVT THEN 0 - (VT_REG_OFS(k) \div SizeOf(k))
                 ELSE REG_MIN(k) - REG_OFS(k)
        cand  == {(b \div SizeOf(k)) + base : b \in Changed}
    IN  fixed \cup {a \in cand : /\ a \in Addr16
                                  /\ KindDomain(k, a)
                                  /\ KindBytes(k, a) \cap Changed # {}}

\* Every accessor of a width other than w returns, at every address, what it
\* returned before the last call.
OtherWidthsUnchanged(w) ==
    /\ w # 1 => \A a \in BitProbes : GetBit(mem, a) = GetBit(before, a)
    /\ \A k \in Kinds : Bits(k) # w =>
          \A a \in KindProbes(k) : Get(mem, k, a) = Get(before, k, a)

\* Every accessor returns, at every address, what it returned before the call.
AllUnchanged ==
    /\ \A a \in BitProbes : GetBit(mem, a) = GetBit(before, a)
    /\ \A k \in Kinds : \A a \in KindProbes(k) : Get(mem, k, a) = Get(before, k, a)

----------------------------------------------------------------------------
(* C1 - Disjointness across widths, in both tables: a write through one     *)
(* width's accessor at an address valid for that width (set_bit, clear_bit, *)
(* set_T, bulk set) leaves the value returned by every accessor of every    *)
(* other width, at every address, as it was before the write.               *)
C1_Disjointness ==
    /\ (BitWrite /\ BitDomain(last.addr)) => OtherWidthsUnchanged(1)
    /\ ((ScalarWrite \/ BulkSet) /\ ~panicked /\ KindDomain(last.k, last.addr))
          => OtherWidthsUnchanged(LastWidth)

(* C2 - Bit round-trip, in both tables: for an address in the bit domain,   *)
(* get_bit(a) returns true immediately after set_bit(a) and false           *)
(* immediately after clear_bit(a), whatever the state before.               *)
C2_BitRoundTrip ==
    /\ (last.op = "set_bit" /\ BitDomain(last.addr)) => GetBit(mem, last.addr)
    /\ (last.op = "clear_bit" /\ BitDomain(last.addr)) => ~GetBit(mem, last.addr)

\* clear_bit has just cleared a bit of a Registers that was set, while another
\* call had been made before.
C2_Witness ==
    /\ IsRegs /\ last.op = "clear_bit" /\ BitDomain(last.addr)
    /\ regs_get_bit(before, last.addr)

(* C3 - Scalar round-trip, in both tables: for every numeric kind T, every  *)
(* address valid for T's width and every value v, get_T(a) returns v        *)
(* immediately after set_T(a, v), whatever the state before.                *)
C3_ScalarRoundTrip ==
    (ScalarWrite /\ KindDomain(last.k, last.addr))
        => Get(mem, last.k, last.addr) = last.val

\* set_i16 has just overwritten an address of a ValueTable that held another
\* non-zero value.
C3_Witness ==
    /\ IsVT /\ ScalarWrite /\ last.k = "i16"
    /\ vt_get(before, "i16", last.addr) \notin {0, last.val}

\* The run [r, r+n) has an address outside [MIN, MAX] of the width of k.
RunLeavesRange(k, r, n) ==
    \E x \in r..(r + n - 1) : x < REG_MIN(k) \/ x > REG_MAX(k)

(* C4 - Registers bulk calls are all-or-nothing: when the run                *)
(* [reg, reg+count) is not entirely inside [MIN, MAX] of the width,         *)
(* get_T_values returns an empty sequence and set_T_values leaves the whole *)
(* arena unchanged, and the call does not terminate the program.            *)
C4_BulkAllOrNothing ==
    (IsRegs /\ last.op \in {"get_values", "set_values"}
            /\ RunLeavesRange(last.k, last.addr,
                              IF last.op = "get_values" THEN last.num
                              ELSE Len(last.vals)))
        => /\ ~panicked
           /\ last.rets = <<>>
           /\ mem = before

(* C5 - Registers bulk round-trip: for a non-empty sequence vs and a start  *)
(* a with MIN <= a and a + len(vs) - 1 <= MAX (runs ending at MAX           *)
(* included), set_T_values(a, vs) followed by get_T_values(a, len(vs))      *)
(* returns exactly vs.                                                      *)
C5_BulkRoundTrip ==
    (IsRegs /\ last.op = "set_values" /\ Len(last.vals) >= 1
            /\ last.addr >= REG_MIN(last.k)
            /\ last.addr + Len(last.vals) - 1 <= REG_MAX(last.k))
        => /\ ~panicked
           /\ regs_get_values(mem, last.k, last.addr, Len(last.vals)) = last.vals

(* C6 - ValueTable clamping: get_Ts(addr, num) returns exactly              *)
(* min(num, 65536 - addr) values, equal to get_T(addr), get_T(addr+1), ...; *)
(* set_Ts(addr, vals) stores exactly the first min(len(vals), 65536 - addr) *)
(* values at addr, addr+1, ..., changes no other address of that width, and *)
(* a following get_Ts(addr, len(vals)) returns that prefix of vals.         *)
C6_Clamping ==
    /\ (IsVT /\ last.op = "gets") =>
          LET n == IF last.num < 65536 - last.addr THEN last.num
                   ELSE 65536 - last.addr
          IN  /\ Len(last.rets) = n
              /\ \A i \in 1..n : last.rets[i] = vt_get(mem, last.k, last.addr + i - 1)
    /\ (IsVT /\ last.op = "sets") =>
          LET n == IF Len(last.vals) < 65536 - last.addr THEN Len(last.vals)
                   ELSE 65536 - last.addr
              run == last.addr..(last.addr + n - 1)
          IN  /\ \A i \in 1..n : vt_get(mem, last.k, last.addr + i - 1) = last.vals[i]
              /\ \A k \in Kinds : Bits(k) = LastWidth =>
                    \A a \in KindProbes(k) \ run :
                        vt_get(mem, k, a) = vt_get(before, k, a)
              /\ vt_gets(mem, last.k, last.addr, Len(last.vals))
                    = SubSeq(last.vals, 1, n)

\* set_Ts has just been given more values than there are addresses left:
\* two values or more at address 65535.
C6_Witness ==
    /\ IsVT /\ last.op = "sets" /\ last.addr = 65535 /\ Len(last.vals) >= 2
    /\ DOMAIN before # {}

(* C8 - Registers out-of-range scalar and bit calls are silent no-ops: for  *)
(* an address outside [MIN, MAX] of T's width get_T returns 0 and set_T     *)
(* changes nothing; for an address above BIT_REG_MAX get_bit returns false  *)
(* and set_bit / clear_bit change nothing; every accessor returns at every  *)
(* address what it returned before the call.                                *)
C8_OutOfRangeNoOp ==
    /\ (IsRegs /\ last.op \in {"get", "set"}
               /\ (last.addr < REG_MIN(last.k) \/ last.addr > REG_MAX(last.k)))
          => /\ last.retv = 0
             /\ mem = before
             /\ AllUnchanged
    /\ (IsRegs /\ last.op \in {"get_bit", "set_bit", "clear_bit"}
               /\ last.addr > BIT_REG_MAX)
          => /\ last.retb = FALSE
             /\ mem = before
             /\ AllUnchanged

\* set_u8(0x1000, 0xAA) has just been called on a Registers whose bit 0x1000
\* is set.
C8_Witness ==
    /\ IsRegs /\ last.op = "set" /\ last.k = "u8" /\ last.addr = 4096
    /\ last.val = 170
    /\ regs_get_bit(before, 4096)

(* C9 - Zero-initialization, in both tables: as long as no write has been   *)
(* called since new(), get_bit returns false at every bit address, get_T    *)
(* returns 0 for every kind at every valid address, and every bulk read     *)
(* returns only zeros.                                                      *)
C9_ZeroInit ==
    (written = {} /\ ~bulkUsed) =>
        /\ \A a \in BitProbes : ~GetBit(mem, a)
        /\ \A k \in Kinds : \A a \in KindProbes(k) : Get(mem, k, a) = 0
        /\ last.op = "get_bit" => ~last.retb
        /\ last.op = "get" => last.retv = 0
        /\ BulkGet => \A i \in 1..Len(last.rets) : last.rets[i] = 0
        /\ IsVT => \A k \in Kinds : \A a \in VT_BulkAddrs :
                      \A i \in 1..Len(vt_gets(mem, k, a, MaxLen)) :
                          vt_gets(mem, k, a, MaxLen)[i] = 0

\* A bulk read of a table nothing was written to has returned values.
C9_Witness ==
    /\ written = {} /\ ~bulkUsed
    /\ BulkGet /\ Len(last.rets) >= 1

\* Every write so far was a single-address write through width w.
OnlyWidthWritten(w) == ~bulkUsed /\ \A p \in written : p[1] = w

----------------------------------------------------------------------------
(* Two threads sharing one ValueTable (unsafe impl Send / Sync), each       *)
(* calling accessors on addresses of its own.  set_bit and clear_bit are    *)
(* a load of the word followed by a store of the word; the two memory       *)
(* accesses of one call can be separated by accesses of the other thread.   *)
(* set_u8 is a single store.                                                *)

Threads == {1, 2}

\* The logical addresses each thread keeps to; no address is in both sets.
ThreadBitAddrs(t) == IF t = 1 THEN {0, 8192} ELSE {1, 16}
ThreadU8Addrs(t) == IF t = 1 THEN {65535} ELSE {1}

InitConc ==
    /\ table = "ValueTable"
    /\ mem = vt_new
    /\ before = mem
    /\ last = NoCall
    /\ overflow_checks = "unknown"
    /\ panicked = FALSE
    /\ written = {}
    /\ bulkUsed = FALSE
    /\ steps = 0
    /\ cmem = vt_new
    /\ seqmem = vt_new
    /\ pc = [t \in Threads |-> "idle"]
    /\ cur = [t \in Threads |-> NoCall]
    /\ reg = [t \in Threads |-> [i \in 1..N |-> 0]]
    /\ calls = [t \in Threads |-> 0]

CanStart(t) == pc[t] = "idle" /\ calls[t] < MaxCalls

\* let val_ptr = ...; the load half of  *val_ptr |= 1 << (addr % N)
Thread_set_bit_load(t, addr) ==
    /\ CanStart(t)
    /\ reg' = [reg EXCEPT ![t] = LoadBytes(cmem, vt_word_ptr(addr), N)]
    /\ cur' = [cur EXCEPT ![t] = Call("set_bit", "bit", addr)]
    /\ pc' = [pc EXCEPT ![t] = "loaded"]
    /\ calls' = [calls EXCEPT ![t] = calls[t] + 1]
    /\ seqmem' = vt_set_bit(seqmem, addr)
    /\ UNCHANGED cmem
    /\ UNCHANGED seqVars

\* the load half of  *val_ptr &= !(1 << (addr % N))
Thread_clear_bit_load(t, addr) ==
    /\ CanStart(t)
    /\ reg' = [reg EXCEPT ![t] = LoadBytes(cmem, vt_word_ptr(addr), N)]
    /\ cur' = [cur EXCEPT ![t] = Call("clear_bit", "bit", addr)]
    /\ pc' = [pc EXCEPT ![t] = "loaded"]
    /\ calls' = [calls EXCEPT ![t] = calls[t] + 1]
    /\ seqmem' = vt_clear_bit(seqmem, addr)
    /\ UNCHANGED cmem
    /\ UNCHANGED seqVars

\* the store half of both: the word loaded, with the bit changed, is written
Thread_bit_store(t) ==
    /\ pc[t] = "loaded"
    /\ LET mask == ShlOne(cur[t].addr % N)
           word == IF cur[t].op = "set_bit" THEN OrWord(reg[t], mask)
                   ELSE AndWord(reg[t], NotWord(mask))
       IN  cmem' = StoreBytes(cmem, vt_word_ptr(cur[t].addr), word)
    /\ pc' = [pc EXCEPT ![t] = "idle"]
    /\ UNCHANGED <<seqmem, cur, reg, calls>>
    /\ UNCHANGED seqVars

Thread_set_u8(t, addr, val) ==
    /\ CanStart(t)
    /\ cmem' = vt_set(cmem, "u8", addr, val)
    /\ seqmem' = vt_set(seqmem, "u8", addr, val)
    /\ cur' = [cur EXCEPT ![t] = [Call("set", "u8", addr) EXCEPT !.val = val]]
    /\ calls' = [calls EXCEPT ![t] = calls[t] + 1]
    /\ UNCHANGED <<pc, reg>>
    /\ UNCHANGED seqVars

NextConc ==
    \/ \E t \in Threads : \E a \in ThreadBitAddrs(t) : Thread_set_bit_load(t, a)
    \/ \E t \in Threads : \E a \in ThreadBitAddrs(t) : Thread_clear_bit_load(t, a)
    \/ \E t \in Threads : Thread_bit_store(t)
    \/ \E t \in Threads : \E a \in ThreadU8Addrs(t) : Thread_set_u8(t, a, Value("u8"))

SpecConc == InitConc /\ [][NextConc]_vars

(* C7 - Address-range sharding suffices: when two threads call accessors of *)
(* one ValueTable and each keeps to its own logical addresses, then in      *)
(* every interleaving of their memory accesses the table, once the calls    *)
(* have returned, is in the state the same calls produce when run one after *)
(* another; no update is lost.                                              *)
C7_ShardingSuffices ==
    (\A t \in Threads : pc[t] = "idle") => cmem = seqmem

====
